---- MODULE Spec2Model ----
(***************************************************************************)
(* Model of src/server.py of yandex-tracker-mcp: the response              *)
(* normalisation (convert_reference, format_issue) and the tool            *)
(* operations built on it, run against an external tracker client whose   *)
(* every call may succeed, raise NotFound or raise another exception.      *)
(*                                                                         *)
(* Python values are tagged records.  An outcome of a call is either       *)
(* Ret(v) (the call returned v) or Exc(e) (exception e left the call).     *)
(***************************************************************************)
EXTENDS Integers, Sequences, FiniteSets, TLC

VARIABLES op, args, result, log

vars == <<op, args, result, log>>

(*************************** bounds of the model ***************************)
\* longest page (of issues, of comments) the client hands back
MaxPage == 2
\* largest amount by which a paginated collection's len() exceeds its items
MaxExtra == 1

(***************************** Python values *******************************)
None == [t |-> "none"]
PyStr(s) == [t |-> "str", s |-> s]
PyInt(i) == [t |-> "int", i |-> i]
PyBool(b) == [t |-> "bool", b |-> b]
\* a float, held as its decimal text
PyFloat(f) == [t |-> "float", f |-> f]
DateTime(d) == [t |-> "datetime", d |-> d]

\* state of an attribute of an object: missing (AttributeError on access),
\* raising another exception on access, or holding a value
Absent == [t |-> "absent"]
Raises == [t |-> "raises"]

\* an object with the three attributes convert_reference probes and a
\* string conversion that succeeds (strOk) or raises
Obj(i, k, d, ok) == [t |-> "obj", id |-> i, key |-> k, display |-> d, strOk |-> ok]

\* a Python dict with the keys id, key, display
Dict(i, k, d) == [t |-> "dict", id |-> i, key |-> k, display |-> d]

\* an object with no attribute at all whose __str__/__repr__ raises
BadObj == Obj(Absent, Absent, Absent, FALSE)

Leaf == {None, PyStr("open"), PyStr("Open"), PyInt(5), BadObj}
AttrStates == {Absent, Raises} \cup Leaf
Primitives == {PyStr("x"), PyStr("open"), PyStr(""), PyInt(5), PyInt(0), PyFloat("1.5"),
               PyBool(TRUE), PyBool(FALSE)}
DateTimes == {DateTime(1), DateTime(2)}
Objects == {Obj(i, k, d, ok) : i \in AttrStates, k \in AttrStates, d \in AttrStates, ok \in BOOLEAN}
Dicts == {Dict(i, k, d) : i \in Leaf, k \in Leaf, d \in Leaf}
RawValues == {None} \cup Primitives \cup DateTimes \cup Objects \cup Dicts

(******************************* outcomes **********************************)
Ret(v) == [k |-> "ret", v |-> v]
Exc(e) == [k |-> "exc", e |-> e]
Error(type, msg) == [type |-> type, msg |-> msg]
IsRet(o) == o.k = "ret"
IsExc(o) == o.k = "exc"

SetMin(S) == CHOOSE x \in S : \A y \in S : x <= y

\* the outcome at index i of e when failed = {}, else the first failed one:
\* Python evaluates the parts of an expression in order and the first
\* exception ends the evaluation
FirstOf(failed, e) ==
    IF failed # {} THEN e[SetMin(failed)] ELSE Ret([i \in DOMAIN e |-> e[i].v])
\* the values of the outcomes e[1], e[2], ... evaluated in order
Collect(e) == FirstOf({i \in DOMAIN e : IsExc(e[i])}, e)
\* try: body / except: handler
Catch(body, handler) == IF IsExc(body) THEN handler ELSE body

StrFailed == Error("Exception", "str failed")
AttrFailed(name) == Error("Exception", name \o " failed")
AttributeError(name) == Error("AttributeError", "no attribute " \o name)

(************************** built-in conversions ***************************)
\* datetime.isoformat()
Isoformat(d) == IF d = 1 THEN "2024-01-01T00:00:00+03:00" ELSE "2024-06-30T12:30:00+00:00"

\* repr() of a value held in a dict: Ret(string) or Exc
Repr(v) ==
    CASE v.t = "none" -> Ret("None")
      [] v.t = "str" -> Ret("'" \o v.s \o "'")
      [] v.t = "int" -> Ret(ToString(v.i))
      [] v.t = "float" -> Ret(v.f)
      [] v.t = "bool" -> Ret(IF v.b THEN "True" ELSE "False")
      [] v.t = "obj" -> IF v.strOk THEN Ret("<obj>") ELSE Exc(StrFailed)
      [] OTHER -> Ret("<value>")

\* str() of a dict, r the outcome of repr() of its three values
DictString(r) ==
    IF IsExc(r) THEN r
    ELSE Ret("{'id': " \o r.v[1] \o ", 'key': " \o r.v[2] \o ", 'display': " \o r.v[3] \o "}")

\* str() of a value: Ret(string) or Exc
StrOf(v) ==
    CASE v.t = "none" -> Ret("None")
      [] v.t = "str" -> Ret(v.s)
      [] v.t = "int" -> Ret(ToString(v.i))
      [] v.t = "float" -> Ret(v.f)
      [] v.t = "bool" -> Ret(IF v.b THEN "True" ELSE "False")
      [] v.t = "datetime" -> Ret(Isoformat(v.d))
      [] v.t = "obj" -> IF v.strOk THEN Ret("<obj>") ELSE Exc(StrFailed)
      [] v.t = "dict" -> DictString(Collect(<<Repr(v.id), Repr(v.key), Repr(v.display)>>))
      [] OTHER -> Ret("<value>")

\* hasattr(ref, name): AttributeError means False, any other exception propagates
HasAttr(ref, name) ==
    IF ref.t # "obj" THEN Ret(FALSE)
    ELSE IF ref[name] = Raises THEN Exc(AttrFailed(name))
    ELSE Ret(ref[name] # Absent)

\* getattr(ref, name, None)
GetAttrDefault(ref, name) ==
    IF ref.t # "obj" THEN Ret(None)
    ELSE IF ref[name] = Raises THEN Exc(AttrFailed(name))
    ELSE IF ref[name] = Absent THEN Ret(None)
    ELSE Ret(ref[name])

(**************************** convert_reference ****************************)
\* str(ref) wrapped as a Python str value
AsPyStr(s) == IF IsExc(s) THEN s ELSE Ret(PyStr(s.v))
StrValue(ref) == AsPyStr(StrOf(ref))

\* ConvertTry filling 'key' from the id attribute
ConvertTry_KeyFromId(ref) ==
    LET h == HasAttr(ref, "display")
    IN  IF IsExc(h) THEN h
        ELSE IF h.v THEN
            LET i == GetAttrDefault(ref, "id")
            IN  IF IsExc(i) THEN i ELSE Ret(Dict(i.v, i.v, ref.display))
        ELSE StrValue(ref)

\* the body of the try block, lines 43-49
ConvertTry(ref) ==
    LET h == HasAttr(ref, "display")
    IN  IF IsExc(h) THEN h
        ELSE IF h.v THEN
            LET i == GetAttrDefault(ref, "id")
                k == GetAttrDefault(ref, "key")
            IN  IF IsExc(i) THEN i
                ELSE IF IsExc(k) THEN k
                ELSE Ret(Dict(i.v, k.v, ref.display))
        ELSE StrValue(ref)

\* the bare except handler, lines 50-51
ConvertExcept(ref) == StrValue(ref)

\* convert_reference passing dicts through with the primitives
convert_reference_DictsThrough(ref) ==
    IF ref = None THEN Ret(None)
    ELSE IF ref.t \in {"str", "int", "float", "bool", "dict"} THEN Ret(ref)
    ELSE IF ref.t = "datetime" THEN Ret(PyStr(Isoformat(ref.d)))
    ELSE Catch(ConvertTry(ref), ConvertExcept(ref))

convert_reference(ref) ==
    IF ref = None THEN Ret(None)
    ELSE IF ref.t \in {"str", "int", "float", "bool"} THEN Ret(ref)
    ELSE IF ref.t = "datetime" THEN Ret(PyStr(Isoformat(ref.d)))
    ELSE Catch(ConvertTry(ref), ConvertExcept(ref))

(******************************* format_issue ******************************)
\* attribute names read by format_issue, in evaluation order, and the
\* output key each one feeds
IssueAttrs == <<"key", "summary", "description", "status", "assignee",
                "createdAt", "updatedAt", "priority", "type", "queue">>
IssueKeys == {"key", "summary", "description", "status", "assignee",
              "created_at", "updated_at", "priority", "type", "queue"}
IssueAttrSet == {IssueAttrs[i] : i \in DOMAIN IssueAttrs}

\* obj.name: a plain attribute access
GetAttr(obj, name) ==
    IF obj[name] = Absent THEN Exc(AttributeError(name)) ELSE Ret(obj[name])

\* the value of the i-th entry of the dict literal, lines 63-72
IssueEntry(issue, i) ==
    LET a == GetAttr(issue, IssueAttrs[i])
    IN  IF IsExc(a) THEN a
        ELSE IF i <= 3 THEN a
        ELSE convert_reference(a.v)

\* the dict literal built from the outcome c of evaluating its entries
IssueRecord(c) ==
    IF IsExc(c) THEN c
    ELSE Ret([key |-> c.v[1], summary |-> c.v[2], description |-> c.v[3],
              status |-> c.v[4], assignee |-> c.v[5], created_at |-> c.v[6],
              updated_at |-> c.v[7], priority |-> c.v[8], type |-> c.v[9],
              queue |-> c.v[10]])

format_issue(issue) ==
    IssueRecord(Collect([i \in DOMAIN IssueAttrs |-> IssueEntry(issue, i)]))

(**************************** the tracker client ***************************)
NotFound == Error("NotFound", "Not Found")
Failure == Error("Exception", "connection refused")
ClientErrors == {Exc(NotFound), Exc(Failure)}

StatusRef == Obj(PyInt(5), PyStr("open"), PyStr("Open"), TRUE)
QueueRef == Obj(PyStr("1"), PyStr("TASK"), PyStr("Tasks"), TRUE)
UserRef == Obj(PyStr("7"), Absent, PyStr("Alice"), TRUE)

Issue1 == [key |-> PyStr("TASK-1"), summary |-> PyStr("x"), description |-> None,
           status |-> StatusRef, assignee |-> None, createdAt |-> DateTime(1),
           updatedAt |-> DateTime(2), priority |-> Obj(PyStr("2"), PyStr("normal"), PyStr("Normal"), TRUE),
           type |-> Obj(PyStr("3"), PyStr("task"), PyStr("Task"), TRUE), queue |-> QueueRef]

\* raw issues with any set of attributes missing
IssuesWithAbsent ==
    {[f \in IssueAttrSet |-> IF f \in A THEN Absent ELSE Issue1[f]] : A \in SUBSET IssueAttrSet}
\* raw issues with one attribute holding another value
IssueFieldValues == {None, PyStr("y"), PyInt(5), DateTime(1), UserRef, BadObj,
                     Obj(Absent, Absent, Absent, TRUE), Obj(Raises, Absent, PyStr("Open"), FALSE)}
IssuesWithValue ==
    {[Issue1 EXCEPT ![f] = v] : f \in IssueAttrSet, v \in IssueFieldValues}
RawIssues == IssuesWithAbsent \cup IssuesWithValue

\* the raw issues the client hands back in the tool operations
IssueSamples == {Issue1,
                 [Issue1 EXCEPT !.key = PyStr("TASK-2"), !.assignee = UserRef],
                 [Issue1 EXCEPT !.assignee = Absent],
                 [Issue1 EXCEPT !.status = BadObj],
                 [Issue1 EXCEPT !.queue = Obj(Raises, Absent, PyStr("Tasks"), TRUE)]}

IssueIds == {"TASK-1", "TASK-999"}

\* Handlers with the generic handler tried first
Handlers_GenericFirst(body, nf, prefix) ==
    IF IsRet(body) THEN body
    ELSE Ret([error |-> prefix \o ": " \o body.e.msg])

\* try: body / except NotFound: nf / except Exception as e: prefix + str(e)
ErrorRecord(msg) == [error |-> msg]
Handlers(body, nf, prefix) ==
    IF IsRet(body) THEN body
    ELSE IF body.e.type = "NotFound" THEN Ret(ErrorRecord(nf))
    ELSE Ret(ErrorRecord(prefix \o ": " \o body.e.msg))

\* Handler catching the client's errors only
Handler_ClientOnly(body, prefix) ==
    IF IsRet(body) \/ body.e.type = "AttributeError" THEN body
    ELSE Ret([error |-> prefix \o ": " \o body.e.msg])

\* try: body / except Exception as e: prefix + str(e)
Handler(body, prefix) ==
    IF IsRet(body) THEN body
    ELSE Ret(ErrorRecord(prefix \o ": " \o body.e.msg))

(******************************* get_project *******************************)
ProjectAttrs == <<"id", "version", "key", "name", "description", "lead",
                  "status", "startDate", "endDate">>
ProjectKeys == {ProjectAttrs[i] : i \in DOMAIN ProjectAttrs}
Project1 == [id |-> PyStr("10"), version |-> PyInt(5), key |-> PyStr("PRJ"), name |-> PyStr("x"),
             description |-> PyStr("y"), lead |-> UserRef, status |-> PyStr("open"),
             startDate |-> PyStr("2024-01-01"), endDate |-> None]
RawProjects ==
    {[f \in ProjectKeys |-> IF f \in A THEN Absent ELSE Project1[f]] : A \in SUBSET ProjectKeys}
        \cup {[Project1 EXCEPT !.lead = v] : v \in {None, BadObj}}

\* getattr(obj, name, None) on a raw entity
GetAttrOrNone(obj, name) == IF obj[name] = Absent THEN Ret(None) ELSE Ret(obj[name])

\* the value of the i-th entry of the dict literal, lines 85-93
ProjectEntry(project, i) ==
    IF i <= 4 THEN GetAttr(project, ProjectAttrs[i])
    ELSE IF i = 6 THEN
        LET a == GetAttr(project, "lead")
        IN  IF IsExc(a) THEN a ELSE convert_reference(a.v)
    ELSE GetAttrOrNone(project, ProjectAttrs[i])

\* the dict literal built from the outcome c of evaluating its entries
ProjectRecord(c) ==
    IF IsExc(c) THEN c
    ELSE Ret([id |-> c.v[1], version |-> c.v[2], key |-> c.v[3], name |-> c.v[4],
              description |-> c.v[5], lead |-> c.v[6], status |-> c.v[7],
              startDate |-> c.v[8], endDate |-> c.v[9]])

format_project(project) ==
    ProjectRecord(Collect([i \in DOMAIN ProjectAttrs |-> ProjectEntry(project, i)]))

\* got: the outcome of client.projects.get(project_id)
get_project(project_id, got) ==
    Handlers(IF IsExc(got) THEN got ELSE format_project(got.v),
             "Project " \o project_id \o " not found", "Failed to get project")

(******************************** get_issue ********************************)
\* got: the outcome of client.issues[issue_id]
get_issue(issue_id, got) ==
    Handlers(IF IsExc(got) THEN got ELSE format_issue(got.v),
             "Issue " \o issue_id \o " not found", "Failed to get issue")

(******************************* create_issue ******************************)
\* created: the outcome of client.issues.create(...)
create_issue(created) ==
    Handler(IF IsExc(created) THEN created ELSE format_issue(created.v),
            "Failed to create issue")

(******************************** edit_issue *******************************)
EditFields == <<"summary", "description", "type", "priority", "assignee">>
EditFieldSet == {EditFields[i] : i \in DOMAIN EditFields}
\* an optional string argument: None, the empty string or a string
OptArgs == {None, PyStr(""), PyStr("new")}
EditArgs == [EditFieldSet -> OptArgs]

\* Truthy testing `is not None` only
Truthy_NotNone(v) == v # None

\* truth value of an Optional[str] argument in `if arg:`
Truthy(v) == v # None /\ v # PyStr("")

\* the fields assigned on the issue, lines 168-177, in order
Assigned(a) == SelectSeq(EditFields, LAMBDA f : Truthy(a[f]))

\* the issue after the assignments
AssignAll(issue, a) ==
    [f \in DOMAIN issue |->
        IF f \in {Assigned(a)[i] : i \in DOMAIN Assigned(a)} THEN a[f] ELSE issue[f]]

AssignLog(a) == [i \in DOMAIN Assigned(a) |-> "set " \o Assigned(a)[i]]

\* got: the outcome of client.issues[issue_id]; saved: that of issue.save()
\* the result, and the trace of what was done to the issue
edit_issue(issue_id, a, got, saved) ==
    LET body == IF IsExc(got) THEN got
                ELSE IF IsExc(saved) THEN saved
                ELSE format_issue(AssignAll(got.v, a))
        trace == IF IsExc(got) THEN <<"issues.get">>
                 ELSE <<"issues.get">> \o AssignLog(a) \o <<"save">>
                        \o (IF IsExc(saved) THEN <<>> ELSE <<"format_issue">>)
    IN  [res |-> Handlers(body, "Issue " \o issue_id \o " not found", "Failed to edit issue"),
         log |-> trace]

(******************************** move_issue *******************************)
\* got: the outcome of client.issues[issue_id]; moved: that of issue.move(queue)
move_issue(issue_id, got, moved) ==
    LET body == IF IsExc(got) THEN got
                ELSE IF IsExc(moved) THEN moved
                ELSE format_issue(got.v)
        trace == IF IsExc(got) THEN <<"issues.get">>
                 ELSE <<"issues.get", "move">> \o (IF IsExc(moved) THEN <<>> ELSE <<"format_issue">>)
    IN  [res |-> Handlers(body, "Issue " \o issue_id \o " not found", "Failed to move issue"),
         log |-> trace]

(******************************* count_issues ******************************)
\* posted: the outcome of client._connection.post('/v3/issues/_count')
count_issues(posted) ==
    Handler(IF IsExc(posted) THEN posted ELSE Ret([count |-> posted.v]),
            "Failed to count issues")

(****************************** search_issues ******************************)
\* what client.issues.find returns: the items iteration yields, and what
\* len() reports (hasLen = FALSE: an iterator without __len__)
Collection(items, n, hasLen) == [items |-> items, len |-> n, hasLen |-> hasLen]

SeqsUpTo(S, n) == UNION {[1..m -> S] : m \in 0..n}

Collections ==
    {Collection(items, Len(items) + extra, hasLen) :
        items \in SeqsUpTo(IssueSamples, MaxPage), extra \in 0..MaxExtra, hasLen \in BOOLEAN}

LenOf(c) == IF c.hasLen THEN Ret(c.len) ELSE Exc(Error("TypeError", "object has no len()"))

SearchTotal(c) == LenOf(c)

\* [format_issue(issue) for issue in issues]
FormatAll(items) == Collect([i \in DOMAIN items |-> format_issue(items[i])])

\* the dict literal, lines 289-292: the list first, then the length
SearchRecord(c) == IF IsExc(c) THEN c ELSE Ret([issues |-> c.v[1], total |-> c.v[2]])
SearchResult(issues) == SearchRecord(Collect(<<FormatAll(issues.items), SearchTotal(issues)>>))

\* found: the outcome of client.issues.find(query, per_page, page)
search_issues(found) ==
    Handler(IF IsExc(found) THEN found ELSE SearchResult(found.v), "Failed to search issues")

(******************************* link_issues *******************************)
\* the dict literal, lines 309-313, c the outcome of formatting both issues
LinkRecord(c, link_type) ==
    IF IsExc(c) THEN c
    ELSE Ret([source |-> c.v[1], target |-> c.v[2], link_type |-> link_type])

\* try: body / except NotFound as e: ... str(e) / except Exception as e: ...
LinkHandlers(body) ==
    IF IsExc(body) /\ body.e.type = "NotFound"
    THEN Ret(ErrorRecord("Issue not found: " \o body.e.msg))
    ELSE Handler(body, "Failed to link issues")

\* src, tgt: the outcomes of the two lookups; linked: that of source.link()
link_issues(link_type, src, tgt, linked) ==
    LET body == IF IsExc(Collect(<<src, tgt, linked>>)) THEN Collect(<<src, tgt, linked>>)
                ELSE LinkRecord(Collect(<<format_issue(src.v), format_issue(tgt.v)>>), link_type)
        trace == IF IsExc(src) THEN <<"issues.get">>
                 ELSE IF IsExc(tgt) THEN <<"issues.get", "issues.get">>
                 ELSE <<"issues.get", "issues.get", "link">>
    IN  [res |-> LinkHandlers(body), log |-> trace]

(************************** get_boards, get_board **************************)
Board(i) == [id |-> i, name |-> "board"]
\* what GET /v3/boards answers: nothing or a list of boards
BoardLists == {None} \cup {[t |-> "list", items |-> l] : l \in SeqsUpTo({Board(1), Board(2)}, MaxPage)}

\* response: the outcome of client._connection.get('/v3/boards')
get_boards(response) ==
    Handler(IF IsExc(response) THEN response
            ELSE Ret([boards |-> response.v,
                      total |-> IF response.v # None /\ Len(response.v.items) > 0
                                THEN Len(response.v.items) ELSE 0]),
            "Failed to get boards")

\* response: the outcome of client._connection.get('/v3/boards/<id>')
get_board(response) == Handler(response, "Failed to get board")

(**************************** get_issue_comments ***************************)
CommentFields == {"id", "text", "createdAt", "updatedAt", "version"}
CommentKeys == {"id", "text", "author", "created_at", "updated_at", "version"}

\* a comment record: mapping-style (has .get) or attribute-style; a field
\* that is Absent is a missing key or a missing attribute
Comment1 == [style |-> "map", id |-> PyInt(5), text |-> PyStr("x"), createdBy |-> None,
             createdAt |-> PyStr("2024-01-01"), updatedAt |-> PyStr("2024-01-02"),
             version |-> PyInt(0)]
EmptyDict == Dict(Absent, Absent, Absent)
Authors == {Absent, None, Dict(PyStr("7"), Absent, PyStr("Alice")),
            Dict(PyStr("7"), Absent, Absent), UserRef, BadObj}
MissingSets == {{}, {"text"}, {"version"}, CommentFields}
Comments ==
    {[f \in DOMAIN Comment1 |->
        IF f = "style" THEN st
        ELSE IF f = "createdBy" THEN au
        ELSE IF f \in A THEN Absent ELSE Comment1[f]] :
            st \in {"map", "attr"}, au \in Authors, A \in MissingSets}

\* hasattr(comment, 'get')
HasGet(comment) == comment.style = "map"

\* MapGet ignoring the default
MapGet_NoDefault(comment, name, default) == IF comment[name] = Absent THEN None ELSE comment[name]

\* comment.get(name, default) and getattr(comment, name, default)
MapGet(comment, name, default) == IF comment[name] = Absent THEN default ELSE comment[name]
AttrGet(comment, name, default) == IF comment[name] = Absent THEN default ELSE comment[name]

\* line 371
AuthorInfo(comment) ==
    IF HasGet(comment) THEN MapGet(comment, "createdBy", EmptyDict)
    ELSE AttrGet(comment, "createdBy", EmptyDict)

\* line 372
AuthorDisplay(info) ==
    IF info.t = "dict" THEN Ret(IF info.display = Absent THEN PyStr("Unknown") ELSE info.display)
    ELSE StrValue(info)

TextDefault == PyStr("")

\* lines 375-392
CommentData(comment, author) ==
    IF HasGet(comment) THEN
        [id |-> MapGet(comment, "id", None), text |-> MapGet(comment, "text", TextDefault),
         author |-> author, created_at |-> MapGet(comment, "createdAt", None),
         updated_at |-> MapGet(comment, "updatedAt", None),
         version |-> MapGet(comment, "version", None)]
    ELSE
        [id |-> AttrGet(comment, "id", None), text |-> AttrGet(comment, "text", TextDefault),
         author |-> author, created_at |-> AttrGet(comment, "createdAt", None),
         updated_at |-> AttrGet(comment, "updatedAt", None),
         version |-> AttrGet(comment, "version", None)]

\* one turn of the loop, lines 369-394
CommentRecord(comment, display) ==
    IF IsExc(display) THEN display ELSE Ret(CommentData(comment, display.v))
FormatComment(comment) == CommentRecord(comment, AuthorDisplay(AuthorInfo(comment)))

\* the loop over list(response)
FormatComments(items) == Collect([i \in DOMAIN items |-> FormatComment(items[i])])

\* comments_data after lines 364-394
CommentsData(response) ==
    IF response # None /\ Len(response.items) > 0
    THEN FormatComments(response.items)
    ELSE Ret(<<>>)

\* the dict literal, lines 396-400, data the outcome of the loop
CommentsRecord(issue_id, data) ==
    IF IsExc(data) THEN data
    ELSE Ret([issue_id |-> issue_id, comments |-> data.v, total |-> Len(data.v)])

\* what GET /v2/issues/<id>/comments answers: nothing or a list of comments
CommentLists == {None} \cup {[t |-> "list", items |-> l] : l \in SeqsUpTo(Comments, MaxPage)}

\* response: the outcome of client._connection.get(...)
get_issue_comments(issue_id, response) ==
    Handlers(IF IsExc(response) THEN response
             ELSE CommentsRecord(issue_id, CommentsData(response.v)),
             "Issue " \o issue_id \o " not found", "Failed to get comments")

(******************************** actions **********************************)
Init ==
    /\ op = "none"
    /\ args = None
    /\ result = Ret(None)
    /\ log = <<>>

Idle == op = "none"

\* a call of convert_reference on an arbitrary raw value
ConvertReference ==
    /\ Idle
    /\ \E ref \in RawValues :
        /\ op' = "convert_reference"
        /\ args' = ref
        /\ result' = convert_reference(ref)
        /\ log' = <<>>

\* a call of format_issue on an arbitrary raw issue
FormatIssue ==
    /\ Idle
    /\ \E issue \in RawIssues :
        /\ op' = "format_issue"
        /\ args' = issue
        /\ result' = format_issue(issue)
        /\ log' = <<>>

GetProject ==
    /\ Idle
    /\ \E project_id \in {"10", "404"}, got \in {Ret(p) : p \in RawProjects} \cup ClientErrors :
        /\ op' = "get_project"
        /\ args' = [project_id |-> project_id, got |-> got]
        /\ result' = get_project(project_id, got)
        /\ log' = <<"projects.get">>

GetIssue ==
    /\ Idle
    /\ \E issue_id \in IssueIds, got \in {Ret(i) : i \in IssueSamples} \cup ClientErrors :
        /\ op' = "get_issue"
        /\ args' = [issue_id |-> issue_id, got |-> got]
        /\ result' = get_issue(issue_id, got)
        /\ log' = <<"issues.get">>

CreateIssue ==
    /\ Idle
    /\ \E created \in {Ret(i) : i \in IssueSamples} \cup ClientErrors :
        /\ op' = "create_issue"
        /\ args' = [created |-> created]
        /\ result' = create_issue(created)
        /\ log' = <<"issues.create">>

EditIssue ==
    /\ Idle
    /\ \E issue_id \in IssueIds, a \in EditArgs,
          got \in {Ret(Issue1), Ret([Issue1 EXCEPT !.assignee = Absent])} \cup ClientErrors,
          saved \in {Ret(None)} \cup ClientErrors :
        /\ op' = "edit_issue"
        /\ args' = [issue_id |-> issue_id, a |-> a, got |-> got, saved |-> saved]
        /\ \E r \in {edit_issue(issue_id, a, got, saved)} :
              /\ result' = r.res
              /\ log' = r.log

MoveIssue ==
    /\ Idle
    /\ \E issue_id \in IssueIds, got \in {Ret(i) : i \in IssueSamples} \cup ClientErrors,
          moved \in {Ret(None)} \cup ClientErrors :
        /\ op' = "move_issue"
        /\ args' = [issue_id |-> issue_id, got |-> got, moved |-> moved]
        /\ \E r \in {move_issue(issue_id, got, moved)} :
              /\ result' = r.res
              /\ log' = r.log

CountIssues ==
    /\ Idle
    /\ \E posted \in {Ret(0), Ret(7)} \cup ClientErrors :
        /\ op' = "count_issues"
        /\ args' = [posted |-> posted]
        /\ result' = count_issues(posted)
        /\ log' = <<"post _count">>

SearchIssues ==
    /\ Idle
    /\ \E found \in {Ret(c) : c \in Collections} \cup ClientErrors :
        /\ op' = "search_issues"
        /\ args' = [found |-> found]
        /\ result' = search_issues(found)
        /\ log' = <<"issues.find">>

LinkIssues ==
    /\ Idle
    /\ \E link_type \in {"relates"},
          src \in {Ret(i) : i \in IssueSamples} \cup ClientErrors,
          tgt \in {Ret(i) : i \in IssueSamples} \cup ClientErrors,
          linked \in {Ret(None)} \cup ClientErrors :
        /\ op' = "link_issues"
        /\ args' = [link_type |-> link_type, src |-> src, tgt |-> tgt, linked |-> linked]
        /\ \E r \in {link_issues(link_type, src, tgt, linked)} :
              /\ result' = r.res
              /\ log' = r.log

GetBoards ==
    /\ Idle
    /\ \E response \in {Ret(b) : b \in BoardLists} \cup ClientErrors :
        /\ op' = "get_boards"
        /\ args' = [response |-> response]
        /\ result' = get_boards(response)
        /\ log' = <<"get boards">>

GetBoard ==
    /\ Idle
    /\ \E response \in {Ret(Board(1)), Ret(Board(2))} \cup ClientErrors :
        /\ op' = "get_board"
        /\ args' = [response |-> response]
        /\ result' = get_board(response)
        /\ log' = <<"get board">>

GetIssueComments ==
    /\ Idle
    /\ \E issue_id \in IssueIds, response \in {Ret(c) : c \in CommentLists} \cup ClientErrors :
        /\ op' = "get_issue_comments"
        /\ args' = [issue_id |-> issue_id, response |-> response]
        /\ result' = get_issue_comments(issue_id, response)
        /\ log' = <<"get comments">>

\* the response is handed to the caller and the request's data is discarded
Reply ==
    /\ ~Idle
    /\ op' = "none"
    /\ args' = None
    /\ result' = Ret(None)
    /\ log' = <<>>

Next ==
    \/ ConvertReference
    \/ FormatIssue
    \/ GetProject
    \/ GetIssue
    \/ CreateIssue
    \/ EditIssue
    \/ MoveIssue
    \/ CountIssues
    \/ SearchIssues
    \/ LinkIssues
    \/ GetBoards
    \/ GetBoard
    \/ GetIssueComments
    \/ Reply

Spec == Init /\ [][Next]_vars

(***************************************************************************)
(*                               the claims                                *)
(***************************************************************************)
ToolOps == {"get_project", "get_issue", "create_issue", "edit_issue", "move_issue",
            "count_issues", "search_issues", "link_issues", "get_boards", "get_board",
            "get_issue_comments"}

\* the keys of the data record of each tool operation
DataKeys(o) ==
    CASE o = "get_project" -> ProjectKeys
      [] o \in {"get_issue", "create_issue", "edit_issue", "move_issue"} -> IssueKeys
      [] o = "count_issues" -> {"count"}
      [] o = "search_issues" -> {"issues", "total"}
      [] o = "link_issues" -> {"source", "target", "link_type"}
      [] o = "get_boards" -> {"boards", "total"}
      [] o = "get_board" -> {"id", "name"}
      [] o = "get_issue_comments" -> {"issue_id", "comments", "total"}

IsErrorRecord(r) == DOMAIN r = {"error"}

\* C1: convert_reference never raises: whatever the input, also an object
\* whose attribute probing or string conversion fails, the call returns a
\* value (a placeholder string when the string conversion fails).
C1_NeverRaises == op = "convert_reference" => IsRet(result)

\* C2: every tool operation, whatever the client does at each of its calls,
\* returns its data record or a single-key record {error: string}; no fault
\* leaves the operation.
C2_ToolsReturnRecords ==
    op \in ToolOps =>
        /\ IsRet(result)
        /\ IsErrorRecord(result.v) \/ DOMAIN result.v = DataKeys(op)

\* a page was fetched, formatting one of its issues failed, and the
\* operation answered with an error record
C2_Witness ==
    /\ op = "search_issues"
    /\ IsRet(args.found)
    /\ IsExc(FormatAll(args.found.v.items))
    /\ IsRet(result)
    /\ IsErrorRecord(result.v)

IssueOutKeys == <<"key", "summary", "description", "status", "assignee",
                  "created_at", "updated_at", "priority", "type", "queue">>

\* C3: whichever source fields are absent, the formatter (format_issue, the
\* record built in get_project) returns every documented key, an absent
\* source field being null, and does not fail.
C3_AllKeysPresent ==
    /\ op = "format_issue" =>
        /\ IsRet(result)
        /\ DOMAIN result.v = IssueKeys
        /\ \A i \in DOMAIN IssueAttrs :
              args[IssueAttrs[i]] = Absent => result.v[IssueOutKeys[i]] = None
    /\ (op = "get_project" /\ IsRet(args.got)) =>
        /\ IsRet(result)
        /\ DOMAIN result.v = ProjectKeys
        /\ \A f \in ProjectKeys : args.got.v[f] = Absent => result.v[f] = None

\* C4: in every successful result of search_issues, total is the number of
\* entries of the returned issues list, also when the collection reports a
\* length that differs from the number of items it yields.
C4_TotalIsListLength ==
    (op = "search_issues" /\ IsRet(result) /\ ~IsErrorRecord(result.v)) =>
        result.v.total = Len(result.v.issues)

\* C5 (as claimed): convert_reference applied to any value it returned gives
\* that value back unchanged.
C5_Idempotent ==
    (op = "convert_reference" /\ IsRet(result)) => convert_reference(result.v) = result

\* C5 (amended): a returned null, primitive or string is returned unchanged
\* when convert_reference is applied again; a returned Reference record is
\* not: the second application gives its string form, or raises when that
\* string conversion fails.
C5_IdempotentExceptRecords ==
    (op = "convert_reference" /\ IsRet(result)) =>
        IF result.v.t = "dict"
        THEN /\ convert_reference(result.v) # result
             /\ convert_reference(result.v) = StrValue(result.v)
        ELSE convert_reference(result.v) = result

\* a reference object was normalised to a record, and normalising the record
\* again gave a string
C5_Witness ==
    /\ op = "convert_reference"
    /\ args.t = "obj"
    /\ IsRet(result)
    /\ result.v.t = "dict"
    /\ IsRet(convert_reference(result.v))
    /\ convert_reference(result.v).v.t = "str"

IsString(v) == v.t = "str"
IsCanonical(v) ==
    \/ v.t \in {"none", "str", "int", "float", "bool"}
    \/ /\ v.t = "dict"
       /\ v.id = None \/ IsString(v.id)
       /\ v.key = None \/ IsString(v.key)
       /\ IsString(v.display)

\* C6 (as claimed): every returned value is null, a primitive, a string or a
\* Reference record with id and key null or a string and display a string;
\* the reference with numeric id 5 becomes {id: "5", key: "open", display: "Open"}.
C6_Canonical ==
    (op = "convert_reference" /\ IsRet(result)) =>
        /\ IsCanonical(result.v)
        /\ args = StatusRef => result.v = Dict(PyStr("5"), PyStr("open"), PyStr("Open"))

\* C6 (amended): every returned value is null, a primitive, a string or a
\* record {id, key, display} holding the object's id, key and display
\* attributes unchanged (id and key null when the attribute is missing); the
\* reference with numeric id 5 becomes {id: 5, key: "open", display: "Open"}.
C6_RecordHoldsRawAttributes ==
    (op = "convert_reference" /\ IsRet(result)) =>
        /\ result.v.t \in {"none", "str", "int", "float", "bool", "dict"}
        /\ result.v.t = "dict" =>
              /\ args.t = "obj"
              /\ result.v.id = (IF args.id = Absent THEN None ELSE args.id)
              /\ result.v.key = (IF args.key = Absent THEN None ELSE args.key)
              /\ result.v.display = args.display
              /\ args.display \notin {Absent, Raises}
        /\ args = StatusRef => result.v = Dict(PyInt(5), PyStr("open"), PyStr("Open"))

\* the reference with numeric id 5 was normalised and kept its numeric id
C6_Witness ==
    /\ op = "convert_reference"
    /\ args = StatusRef
    /\ result = Ret(Dict(PyInt(5), PyStr("open"), PyStr("Open")))

\* C7: when the lookup raises NotFound for key K, get_issue(K) returns
\* exactly {error: "Issue K not found"}, never the "Failed to get issue" form.
C7_NotFoundMessage ==
    (op = "get_issue" /\ args.got = Exc(NotFound)) =>
        result = Ret([error |-> "Issue " \o args.issue_id \o " not found"])

\* the lookup of TASK-999 raised NotFound and the error record was returned
C7_Witness ==
    /\ op = "get_issue"
    /\ args.issue_id = "TASK-999"
    /\ args.got = Exc(NotFound)
    /\ result = Ret([error |-> "Issue TASK-999 not found"])

\* the comment field each output key is read from
CommentSource(key) ==
    CASE key = "created_at" -> "createdAt"
      [] key = "updated_at" -> "updatedAt"
      [] OTHER -> key

IsCommentPage(r) == IsRet(r) /\ r.v # None

\* C8 (as claimed): any page of comment records, of either style, gives one
\* output record per input record, in order, with exactly the six keys, null
\* for every missing field, and total the number of output records.
C8_CommentsNullDefault ==
    (op = "get_issue_comments" /\ IsCommentPage(args.response)) =>
        LET page == args.response.v.items
        IN  /\ IsRet(result)
            /\ ~IsErrorRecord(result.v)
            /\ Len(result.v.comments) = Len(page)
            /\ result.v.total = Len(result.v.comments)
            /\ \A i \in DOMAIN page :
                  /\ DOMAIN result.v.comments[i] = CommentKeys
                  /\ \A key \in CommentKeys \ {"author"} :
                        result.v.comments[i][key] =
                            (IF page[i][CommentSource(key)] = Absent THEN None
                             ELSE page[i][CommentSource(key)])

\* the author of a comment cannot be converted to a string
AuthorFails(c) == c.createdBy \notin {Absent} /\ c.createdBy.t # "dict" /\ IsExc(StrOf(c.createdBy))

\* C8 (amended): for a page of comment records of either style,
\* get_issue_comments returns {error: "Failed to get comments: ..."} when the
\* author of some record is not a mapping and its string conversion fails;
\* otherwise it returns one output record per input record, in order, with
\* exactly the six keys, where a missing id, createdAt, updatedAt or version
\* is null, a missing text is the empty string and a missing author (or an
\* author mapping without display) is "Unknown", and total is the number of
\* output records.
C8_CommentsDefaults ==
    (op = "get_issue_comments" /\ IsCommentPage(args.response)) =>
        LET page == args.response.v.items
        IN  /\ IsRet(result)
            /\ IsErrorRecord(result.v) <=> \E i \in DOMAIN page : AuthorFails(page[i])
            /\ IsErrorRecord(result.v) =>
                  result.v.error = "Failed to get comments: str failed"
            /\ ~IsErrorRecord(result.v) =>
                  /\ Len(result.v.comments) = Len(page)
                  /\ result.v.total = Len(result.v.comments)
                  /\ \A i \in DOMAIN page :
                        /\ DOMAIN result.v.comments[i] = CommentKeys
                        /\ \A key \in {"id", "created_at", "updated_at", "version"} :
                              result.v.comments[i][key] =
                                  (IF page[i][CommentSource(key)] = Absent THEN None
                                   ELSE page[i][CommentSource(key)])
                        /\ result.v.comments[i].text =
                              (IF page[i].text = Absent THEN PyStr("") ELSE page[i].text)
                        /\ (\/ page[i].createdBy = Absent
                            \/ page[i].createdBy = Dict(PyStr("7"), Absent, Absent)) =>
                              result.v.comments[i].author = PyStr("Unknown")

\* a mixed page: a mapping-style record without text and version, then an
\* attribute-style record, formatted to two records
C8_Witness ==
    /\ op = "get_issue_comments"
    /\ IsCommentPage(args.response)
    /\ Len(args.response.v.items) = 2
    /\ args.response.v.items[1].style = "map"
    /\ args.response.v.items[1].text = Absent
    /\ args.response.v.items[1].version = Absent
    /\ args.response.v.items[2].style = "attr"
    /\ IsRet(result)
    /\ ~IsErrorRecord(result.v)
    /\ result.v.total = 2
    /\ result.v.comments[1].text = PyStr("")
    /\ result.v.comments[1].version = None

\* C9: in a multi-entity operation (search_issues, get_issue_comments,
\* link_issues), when formatting one entity fails the result still holds
\* every entity; the whole result is not replaced by an error.
C9_NoWholeResultFailure ==
    /\ (op = "search_issues" /\ IsRet(args.found) /\ args.found.v.hasLen) =>
          /\ IsRet(result)
          /\ ~IsErrorRecord(result.v)
          /\ Len(result.v.issues) = Len(args.found.v.items)
    /\ (op = "get_issue_comments" /\ IsCommentPage(args.response)) =>
          /\ IsRet(result)
          /\ ~IsErrorRecord(result.v)
          /\ Len(result.v.comments) = Len(args.response.v.items)
    /\ (op = "link_issues" /\ IsRet(args.src) /\ IsRet(args.tgt) /\ IsRet(args.linked)) =>
          /\ IsRet(result)
          /\ ~IsErrorRecord(result.v)

Indexes(l, x) == {i \in DOMAIN l : l[i] = x}
SetLog(l) == {f \in EditFieldSet : Indexes(l, "set " \o f) # {}}

\* C10: edit_issue writes only after a successful lookup and changes only
\* the supplied fields: when the lookup raises, nothing is assigned and save
\* is not called; otherwise a field is assigned exactly when its argument is
\* neither None nor the empty string (once, with the argument's value), and
\* save is called exactly once, after every assignment and before the issue
\* is formatted.
C10_EditFrame ==
    op = "edit_issue" =>
        IF IsExc(args.got)
        THEN log = <<"issues.get">>
        ELSE /\ SetLog(log) = {f \in EditFieldSet : args.a[f] \notin {None, PyStr("")}}
             /\ \A f \in EditFieldSet : Cardinality(Indexes(log, "set " \o f)) <= 1
             /\ Cardinality(Indexes(log, "save")) = 1
             /\ \A f \in EditFieldSet : \A i \in Indexes(log, "set " \o f) :
                    \A j \in Indexes(log, "save") : i < j
             /\ \A i \in Indexes(log, "format_issue") : \A j \in Indexes(log, "save") : j < i
             /\ (IsRet(result) /\ ~IsErrorRecord(result.v)) =>
                    /\ result.v.summary =
                          (IF args.a.summary \in {None, PyStr("")} THEN args.got.v.summary
                           ELSE args.a.summary)
                    /\ result.v.description =
                          (IF args.a.description \in {None, PyStr("")} THEN args.got.v.description
                           ELSE args.a.description)

\* an edit with a new summary, an empty description and no other argument:
\* only the summary was assigned, then the issue was saved and formatted
C10_Witness ==
    /\ op = "edit_issue"
    /\ IsRet(args.got)
    /\ args.a.summary = PyStr("new")
    /\ args.a.description = PyStr("")
    /\ args.a.type = None
    /\ log = <<"issues.get", "set summary", "save", "format_issue">>
    /\ IsRet(result)
    /\ result.v.summary = PyStr("new")
====
